---- MODULE Spec2Model ----
(***************************************************************************)
(* Model of sourcerer (src/main.go): the tolerant semver parser and        *)
(* comparator, the per-entry currency check, the per-manifest reconcile    *)
(* loop and the goroutine-per-manifest orchestration of main.              *)
(*                                                                         *)
(* Go strings are modelled as sequences of one-character strings, so that  *)
(* the regular expressions and strconv.ParseInt are computed character by  *)
(* character.  The empty Go string is the empty sequence.                  *)
(***************************************************************************)
EXTENDS Integers, Sequences, FiniteSets, TLC

VARIABLES
    tag, parsed,               \* mkSemver: its argument and its result
    x, y, rxy, ryx,            \* compareSemver: operands, both argument orders
    entry, resp, result,       \* checkEntry: its entry, the lookup's answer, its result
    manifests,                 \* what searchForManifests found (file contents)
    spawned,                   \* main: goroutines started so far
    wg,                        \* main: the sync.WaitGroup counter
    proc,                      \* the process: running, exited or panicked
    pc,                        \* per manifest task: position in handleManifest
    conf,                      \* per task: the Config parseConfig returned
    idx,                       \* per task: checkNewer's loop index (1-based)
    msgs,                      \* per task: checkNewer's msgs slice
    ret,                       \* per task: what checkNewer returned
    checked,                   \* per task: entries handed to checkEntry, in order
    lookups,                   \* per task: the http.Get calls issued, in order
    printed                    \* per task: what handleManifest printed

semverVars == <<tag, parsed>>
compareVars == <<x, y, rxy, ryx>>
entryVars == <<entry, resp, result>>
pureVars == <<tag, parsed, x, y, rxy, ryx, entry, resp, result>>
mainVars == <<manifests, spawned, wg, proc, pc, conf, idx, msgs, ret, checked,
              lookups, printed>>
vars == <<tag, parsed, x, y, rxy, ryx, entry, resp, result, manifests, spawned, wg, proc, pc, conf,
          idx, msgs, ret, checked, lookups, printed>>

(***************************************************************************)
(* Bounds of the model.                                                    *)
(***************************************************************************)
MaxTagLen == 4
MaxEntries == 3
MaxManifests == 2

(***************************************************************************)
(* Characters.                                                             *)
(***************************************************************************)
Digits == {"0", "1", "2", "3", "4", "5", "6", "7", "8", "9"}

IsDigit(c) == c \in Digits

DigitVal(c) ==
    CASE c = "0" -> 0 [] c = "1" -> 1 [] c = "2" -> 2 [] c = "3" -> 3
      [] c = "4" -> 4 [] c = "5" -> 5 [] c = "6" -> 6 [] c = "7" -> 7
      [] c = "8" -> 8 [] c = "9" -> 9

\* The largest value strconv.ParseInt(s, 10, 32) accepts.
MaxInt32 == 2147483647

(***************************************************************************)
(* strconv.ParseInt(s, 10, 32) on a string of decimal digits: the value,   *)
(* or a range error when it does not fit 32 signed bits.  The accumulator  *)
(* is checked before each multiplication, as strconv's cutoff test does.   *)
(***************************************************************************)
RECURSIVE ParseIntFrom(_, _, _)
ParseIntFrom(s, i, acc) ==
    IF i > Len(s) THEN [err |-> FALSE, val |-> acc]
    ELSE IF ~IsDigit(s[i]) THEN [err |-> TRUE, val |-> 0]
    ELSE IF acc > (MaxInt32 - DigitVal(s[i])) \div 10 THEN [err |-> TRUE, val |-> 0]
    ELSE ParseIntFrom(s, i + 1, acc * 10 + DigitVal(s[i]))

ParseInt(s) ==
    IF Len(s) = 0 THEN [err |-> TRUE, val |-> 0] ELSE ParseIntFrom(s, 1, 0)

(***************************************************************************)
(* semverRE = ^\D*(?P<first>(\d+))(\.(?P<second>\d+))? ... (fifth)?$       *)
(***************************************************************************)
\* \D* : the index of the first digit of s at or after i (Len(s)+1 if none).
RECURSIVE SkipNonDigits(_, _)
SkipNonDigits(s, i) ==
    IF i > Len(s) \/ IsDigit(s[i]) THEN i ELSE SkipNonDigits(s, i + 1)

\* \d+ : the index just after the digit run of s that starts at i.
RECURSIVE SkipDigits(_, _)
SkipDigits(s, i) ==
    IF i <= Len(s) /\ IsDigit(s[i]) THEN SkipDigits(s, i + 1) ELSE i

\* The number of capture groups that hold a version component.
MaxParts == 5

\* (\d+)(\.(\d+))?...$ from index i with n components already matched: the
\* digit runs, or no match.
RECURSIVE MatchRuns(_, _, _)
MatchRuns(s, i, n) ==
    LET j == SkipDigits(s, i)
        run == SubSeq(s, i, j - 1)
    IN  IF j = i THEN [ok |-> FALSE, runs |-> <<>>]
        ELSE IF j > Len(s) THEN [ok |-> TRUE, runs |-> <<run>>]
        ELSE IF s[j] = "." /\ n + 1 < MaxParts
             THEN LET r == MatchRuns(s, j + 1, n + 1)
                  IN  IF r.ok THEN [ok |-> TRUE, runs |-> <<run>> \o r.runs]
                      ELSE [ok |-> FALSE, runs |-> <<>>]
        ELSE [ok |-> FALSE, runs |-> <<>>]

\* semverRE.SubexpNames(): index 0 is the whole match, unnamed groups are "".
semverNames ==
    <<"", "first", "", "", "second", "", "third", "", "fourth", "", "fifth">>

\* One optional group pair (\.(?P<name>\d+))? for component k of runs.
OptGroup(runs, k) ==
    IF k <= Len(runs) THEN << <<".">> \o runs[k], runs[k] >> ELSE << <<>>, <<>> >>

\* semverFind without the \D* at the head of the pattern.
semverFindNoPrefix(s) ==
    LET r == MatchRuns(s, 1, 0)
    IN  IF ~r.ok THEN <<>>
        ELSE <<s, r.runs[1], r.runs[1]>> \o OptGroup(r.runs, 2)
             \o OptGroup(r.runs, 3) \o OptGroup(r.runs, 4) \o OptGroup(r.runs, 5)

\* semverRE.FindStringSubmatch(s): nil (the empty sequence) when s does not
\* match, else the whole match followed by the ten groups.
semverFind(s) ==
    LET r == MatchRuns(s, SkipNonDigits(s, 1), 0)
    IN  IF ~r.ok THEN <<>>
        ELSE <<s, r.runs[1], r.runs[1]>> \o OptGroup(r.runs, 2)
             \o OptGroup(r.runs, 3) \o OptGroup(r.runs, 4) \o OptGroup(r.runs, 5)

(***************************************************************************)
(* mkSemver                                                                *)
(***************************************************************************)
RECURSIVE mkSemverLoop(_, _, _)
mkSemverLoop(m, i, out) ==
    IF i > Len(semverNames) THEN [out |-> out, err |-> FALSE]
    ELSE IF semverNames[i] # "" /\ Len(m) >= i /\ m[i] # <<>>
         THEN LET part == ParseInt(m[i])
              IN  IF part.err THEN [out |-> out, err |-> TRUE]
                  ELSE IF part.val < 0 THEN [out |-> out, err |-> TRUE]
                  ELSE mkSemverLoop(m, i + 1, Append(out, part.val))
    ELSE mkSemverLoop(m, i + 1, out)

mkSemver(s) == mkSemverLoop(semverFind(s), 1, <<>>)

(***************************************************************************)
(* compareSemver                                                           *)
(***************************************************************************)
RECURSIVE compareLoop(_, _, _)
compareLoop(as, bs, i) ==
    IF i > Len(as) THEN 0
    ELSE LET a == as[i]
             b == IF i > Len(bs) THEN 0 ELSE bs[i]
         IN  IF a > b THEN 1
             ELSE IF a < b THEN -1
             ELSE compareLoop(as, bs, i + 1)

compareSemver(s, t) ==
    LET xs == mkSemver(s)
        ys == mkSemver(t)
    IN  IF xs.err \/ ys.err THEN [err |-> TRUE, val |-> 0]
        ELSE IF Len(xs.out) >= Len(ys.out)
             THEN [err |-> FALSE, val |-> compareLoop(xs.out, ys.out, 1)]
             ELSE [err |-> FALSE, val |-> compareLoop(ys.out, xs.out, 1)]

(***************************************************************************)
(* repoRE and parseRepo: "github", any character, "com/", then an owner    *)
(* and a project, each a run of characters other than "/", separated by    *)
(* "/".  The dot of the pattern is unescaped: it matches any character but *)
(* a newline.  The pattern is anchored at the start only.                  *)
(***************************************************************************)
\* The index of the first "/" of s at or after i (Len(s)+1 if none).
RECURSIVE SkipToSlash(_, _)
SkipToSlash(s, i) ==
    IF i > Len(s) \/ s[i] = "/" THEN i ELSE SkipToSlash(s, i + 1)

\* repoRE.FindStringSubmatch(s): nil (the empty sequence) or the match and
\* its two groups.
repoFind(s) ==
    IF /\ Len(s) >= 11
       /\ SubSeq(s, 1, 6) = <<"g", "i", "t", "h", "u", "b">>
       /\ s[7] # "\n"
       /\ SubSeq(s, 8, 11) = <<"c", "o", "m", "/">>
    THEN LET o == SkipToSlash(s, 12)
             q == SkipToSlash(s, o + 1)
         IN  IF o > Len(s) THEN <<>>
             ELSE <<SubSeq(s, 1, q - 1), SubSeq(s, 12, o - 1), SubSeq(s, o + 1, q - 1)>>
    ELSE <<>>

parseRepo(repo) ==
    LET match == repoFind(repo)
    IN  IF Len(match) # 3 THEN [owner |-> <<>>, gitrepo |-> <<>>, err |-> TRUE]
        ELSE [owner |-> match[2], gitrepo |-> match[3], err |-> FALSE]

(***************************************************************************)
(* checkEntry.  A message is kept as its kind and the values formatted     *)
(* into it; an error as the name of the step that failed ("" is nil).      *)
(* calls lists the steps checkEntry went through.                          *)
(***************************************************************************)
NoMsg == [class |-> "", repo |-> <<>>, have |-> <<>>, latest |-> <<>>, url |-> <<>>]

Failed(step, calls) == [m |-> NoMsg, err |-> step, calls |-> calls]
Message(m, calls) == [m |-> m, err |-> "", calls |-> calls]

\* var tag string; err = json.Unmarshal(*gitObj["name"], tag): the target is
\* passed by value, so Unmarshal rejects it and tag keeps its zero value; the
\* error is overwritten by the next assignment.
decodedTag(raw) == <<>>

\* classifyRelease with the nil test passing a JSON null on to the comparison.
classifyReleaseNullCompared(e, obj, calls) ==
    IF obj.name = "absent"
    THEN Message([NoMsg EXCEPT !.class = "Unverifiable", !.repo = e.Repo], calls)
    ELSE LET rel == compareSemver(e.Tag, <<>>)
             done == Append(calls, "compareSemver")
         IN  IF rel.err THEN Failed("compareSemver", done)
             ELSE IF rel.val < 0
                  THEN Message([NoMsg EXCEPT !.class = "Outdated", !.repo = e.Repo,
                                             !.have = e.Tag], done)
                  ELSE Message([NoMsg EXCEPT !.class = "UpToDate", !.repo = e.Repo], done)

\* checkEntry from the nil test on gitObj["name"] to its end.
classifyRelease(e, obj, calls) ==
    IF obj.name \in {"absent", "null"}
    THEN Message([NoMsg EXCEPT !.class = "Unverifiable", !.repo = e.Repo], calls)
    ELSE LET latest == decodedTag(obj.value)
             rel == compareSemver(e.Tag, latest)
             done == Append(calls, "compareSemver")
         IN  IF rel.err THEN Failed("compareSemver", done)
             ELSE IF rel.val < 0
                  THEN Message([NoMsg EXCEPT !.class = "Outdated", !.repo = e.Repo,
                                             !.have = e.Tag, !.latest = latest], done)
                  ELSE Message([NoMsg EXCEPT !.class = "UpToDate", !.repo = e.Repo], done)

\* checkEntry from http.Get to json.Unmarshal of the body.  rsp is what the
\* release API answers.
fetchRelease(e, rsp, calls) ==
    LET done == Append(calls, "http.Get")
    IN  IF rsp.kind = "transport" THEN Failed("http.Get", done)
        ELSE IF rsp.kind = "body" THEN Failed("ioutil.ReadAll", done)
        ELSE IF rsp.kind = "notjson" THEN Failed("json.Unmarshal", done)
        ELSE classifyRelease(e, rsp, done)

\* checkEntry with the Repo looked at before the URL.
checkEntryRepoFirst(e, rsp) ==
    IF Len(e.Repo) = 0 /\ Len(e.URL) # 0
    THEN Message([NoMsg EXCEPT !.class = "RawURL", !.url = e.URL], <<>>)
    ELSE LET r == parseRepo(e.Repo)
         IN  IF r.err THEN Failed("parseRepo", <<"parseRepo">>)
             ELSE fetchRelease(e, rsp, <<"parseRepo">>)

checkEntry(e, rsp) ==
    IF Len(e.URL) # 0
    THEN Message([NoMsg EXCEPT !.class = "RawURL", !.url = e.URL], <<>>)
    ELSE LET r == parseRepo(e.Repo)
         IN  IF r.err THEN Failed("parseRepo", <<"parseRepo">>)
             ELSE fetchRelease(e, rsp, <<"parseRepo">>)

(***************************************************************************)
(* checkNewer: one iteration of its loop over config.Sources.              *)
(***************************************************************************)
\* checkNewerIter carrying on past an entry whose check failed.
checkNewerIterContinue(ms, e, rsp) ==
    LET r == checkEntry(e, rsp)
    IN  IF r.err # ""
        THEN [msgs |-> ms, err |-> "", returned |-> FALSE, r |-> r]
        ELSE [msgs |-> Append(ms, r.m), err |-> "", returned |-> FALSE, r |-> r]

checkNewerIter(ms, e, rsp) ==
    LET r == checkEntry(e, rsp)
    IN  IF r.err # ""
        THEN [msgs |-> ms, err |-> r.err, returned |-> TRUE, r |-> r]
        ELSE [msgs |-> Append(ms, r.m), err |-> "", returned |-> FALSE, r |-> r]

(***************************************************************************)
(* validateConfig and parseConfig.  A manifest file is what ReadFile and   *)
(* yaml.Unmarshal make of it: unreadable, not YAML, or a list of entries.  *)
(***************************************************************************)
RECURSIVE validateFrom(_, _)
validateFrom(sources, i) ==
    IF i > Len(sources) THEN ""
    ELSE IF Len(sources[i].URL) # 0 /\ Len(sources[i].Repo) # 0
         THEN "cannot define a url and a repo; pick one"
    ELSE IF Len(sources[i].Repo) # 0 /\ Len(sources[i].Tag) = 0
         THEN "when defining a repo you must also define a tag to pull"
    ELSE validateFrom(sources, i + 1)

validateConfig(config) == validateFrom(config.Sources, 1)

EmptyConfig == [Sources |-> <<>>]

parseConfig(file) ==
    IF ~file.readable THEN [config |-> EmptyConfig, err |-> "ReadFile"]
    ELSE IF ~file.yaml THEN [config |-> EmptyConfig, err |-> "Invalid yaml"]
    ELSE IF validateConfig([Sources |-> file.sources]) # ""
         THEN [config |-> [Sources |-> file.sources], err |-> "Invalid config"]
    ELSE [config |-> [Sources |-> file.sources], err |-> ""]

(***************************************************************************)
(* Tags the parser and the comparator are run on: every string of at most  *)
(* MaxTagLen characters over TagChars, and the tags the documentation      *)
(* names, with the boundary cases of the pattern and of ParseInt.          *)
(***************************************************************************)
TagChars == {"v", "-", ".", "0", "1", "2"}

StringsUpTo(chars, n) == UNION {[1..k -> chars] : k \in 0..n}

Tag_v2_3 == <<"v", "2", ".", "3">>
Tag_no_digits_here ==
    <<"n", "o", "-", "d", "i", "g", "i", "t", "s", "-", "h", "e", "r", "e">>
Tag_1_neg2 == <<"1", ".", "-", "2">>
Tag_release_2_0_1 == <<"r", "e", "l", "e", "a", "s", "e", "-", "2", ".", "0", ".", "1">>
Tag_2_0_1 == <<"2", ".", "0", ".", "1">>
Tag_1_2_3_beta == <<"1", ".", "2", ".", "3", "-", "b", "e", "t", "a">>
Tag_1_2 == <<"1", ".", "2">>
Tag_1_2_0 == <<"1", ".", "2", ".", "0">>
Tag_1_1_9 == <<"1", ".", "1", ".", "9">>
Tag_v1_10_0 == <<"v", "1", ".", "1", "0", ".", "0">>
Tag_v1_9_9 == <<"v", "1", ".", "9", ".", "9">>
Tag_five == <<"1", ".", "2", ".", "3", ".", "4", ".", "5">>
Tag_six == <<"1", ".", "2", ".", "3", ".", "4", ".", "5", ".", "6">>
Tag_maxint == <<"2", "1", "4", "7", "4", "8", "3", "6", "4", "7">>
Tag_overflow == <<"v", "1", ".", "2", "1", "4", "7", "4", "8", "3", "6", "4", "8">>
Tag_1_0_0 == <<"1", ".", "0", ".", "0">>
Tag_1_1_0 == <<"1", ".", "1", ".", "0">>
Tag_2_0_0 == <<"2", ".", "0", ".", "0">>

NamedTags ==
    {Tag_v2_3, Tag_no_digits_here, Tag_1_neg2, Tag_release_2_0_1, Tag_2_0_1,
     Tag_1_2_3_beta, Tag_1_2, Tag_1_2_0, Tag_1_1_9, Tag_v1_10_0, Tag_v1_9_9,
     Tag_five, Tag_six, Tag_maxint, Tag_overflow, Tag_1_0_0, Tag_1_1_0,
     Tag_2_0_0}

Tags == StringsUpTo(TagChars, MaxTagLen) \cup NamedTags

\* The comparator's operands: the named tags and the shortest strings.
CmpTags == StringsUpTo({".", "0", "1", "v"}, MaxTagLen - 1) \cup NamedTags

(***************************************************************************)
(* Entries, release-API answers and manifest files the program is run on.  *)
(***************************************************************************)
Repo_foo_bar ==
    <<"g", "i", "t", "h", "u", "b", ".", "c", "o", "m", "/", "f", "o", "o", "/", "b", "a", "r">>
Repo_not_a_repo == <<"n", "o", "t", "-", "a", "-", "r", "e", "p", "o">>
Url_raw == <<"h", "t", "t", "p", ":", "/", "/", "x", "/", "y", ".", "t", "g", "z">>

Repos == {<<>>, Repo_foo_bar, Repo_not_a_repo}
Urls == {<<>>, Url_raw}

\* What the release API can answer: a transport failure, an unreadable body,
\* a body that is no JSON object, or an object whose name is absent, null or
\* a release tag.
LatestNames == {Tag_1_1_0, Tag_2_0_0}

Responses ==
    {[kind |-> k, name |-> "absent", value |-> <<>>] : k \in {"transport", "body", "notjson"}}
    \cup {[kind |-> "object", name |-> n, value |-> <<>>] : n \in {"absent", "null"}}
    \cup {[kind |-> "object", name |-> "string", value |-> v] : v \in LatestNames}

\* checkEntry's entries: any combination of the three fields.
EntryTags == {<<>>, Tag_1_0_0, Tag_2_0_0, Tag_v2_3, Tag_no_digits_here, Tag_overflow}
Entries == [Repo : Repos, Tag : EntryTags, URL : Urls]

\* The entries of manifest files.
FileTags == {<<>>, Tag_1_0_0}
FileEntries == [Repo : Repos, Tag : FileTags, URL : Urls]

SeqsUpTo(S, n) == UNION {[1..k -> S] : k \in 0..n}

Unreadable == [readable |-> FALSE, yaml |-> FALSE, sources |-> <<>>]
NotYaml == [readable |-> TRUE, yaml |-> FALSE, sources |-> <<>>]
Manifest(sources) == [readable |-> TRUE, yaml |-> TRUE, sources |-> sources]

\* Every manifest file of at most MaxEntries entries.
Files ==
    {Unreadable, NotYaml} \cup {Manifest(ss) : ss \in SeqsUpTo(FileEntries, MaxEntries)}

\* The manifest files of the runs of main with several manifests.
Pin(repo, t, url) == [Repo |-> repo, Tag |-> t, URL |-> url]
TreeFiles ==
    {NotYaml,
     Manifest(<<>>),
     Manifest(<<Pin(Repo_foo_bar, Tag_1_0_0, <<>>)>>),
     Manifest(<<Pin(<<>>, <<>>, Url_raw), Pin(Repo_not_a_repo, Tag_1_0_0, <<>>)>>),
     Manifest(<<Pin(Repo_foo_bar, <<>>, <<>>)>>)}

(***************************************************************************)
(* main and handleManifest.  Task m is the goroutine main starts for       *)
(* manifests[m].  A panic in any goroutine ends the whole process.         *)
(***************************************************************************)
Tasks == 1..Len(manifests)

NotReturned == [done |-> FALSE, msgs |-> <<>>, err |-> ""]

\* The answer http.Get gets, recorded only when the call was made.
NoResponse == [kind |-> "none", name |-> "absent", value |-> <<>>]

\* main: go func(m string) { ... }(m) for the next manifest of the range.
Spawn ==
    /\ proc = "running"
    /\ spawned < Len(manifests)
    /\ spawned' = spawned + 1
    /\ pc' = [pc EXCEPT ![spawned + 1] = "parseConfig"]
    /\ UNCHANGED <<manifests, wg, proc, conf, idx, msgs, ret, checked, lookups, printed>>
    /\ UNCHANGED pureVars

\* handleManifest: conf, err := parseConfig(filename), no error.
ParseConfigOk(m) ==
    /\ proc = "running"
    /\ pc[m] = "parseConfig"
    /\ parseConfig(manifests[m]).err = ""
    /\ conf' = [conf EXCEPT ![m] = [loaded |-> TRUE,
                                    Sources |-> parseConfig(manifests[m]).config.Sources]]
    /\ pc' = [pc EXCEPT ![m] = "checkNewer"]
    /\ UNCHANGED <<manifests, spawned, wg, proc, idx, msgs, ret, checked, lookups, printed>>
    /\ UNCHANGED pureVars

\* handleManifest: parseConfig returned an error: panic(err).
ParseConfigPanic(m) ==
    /\ proc = "running"
    /\ pc[m] = "parseConfig"
    /\ parseConfig(manifests[m]).err # ""
    /\ pc' = [pc EXCEPT ![m] = "panicked"]
    /\ proc' = "panicked"
    /\ UNCHANGED <<manifests, spawned, wg, conf, idx, msgs, ret, checked, lookups, printed>>
    /\ UNCHANGED pureVars

\* What the iteration of checkNewer's loop for entry i adds to the logs: the
\* entry's result, with the answer of the release API when it was asked, and
\* the lookup issued.
CheckedRecord(i, e, rsp, r) ==
    [i |-> i, e |-> e, rsp |-> IF Len(r.calls) >= 2 THEN rsp ELSE NoResponse, r |-> r]
LookupRecord(i, e) ==
    [i |-> i, owner |-> parseRepo(e.Repo).owner, gitrepo |-> parseRepo(e.Repo).gitrepo]

\* checkNewer: one iteration of for _, e := range config.Sources.
CheckNewerStep(m) ==
    /\ proc = "running"
    /\ pc[m] = "checkNewer"
    /\ idx[m] <= Len(conf[m].Sources)
    /\ \E rsp \in Responses :
       \E it \in {checkNewerIter(msgs[m], conf[m].Sources[idx[m]], rsp)} :
         /\ msgs' = [msgs EXCEPT ![m] = it.msgs]
         /\ checked' = [checked EXCEPT
                           ![m] = Append(checked[m],
                                         CheckedRecord(idx[m], conf[m].Sources[idx[m]],
                                                       rsp, it.r))]
         /\ lookups' = [lookups EXCEPT
                           ![m] = IF Len(it.r.calls) >= 2
                                  THEN Append(lookups[m],
                                              LookupRecord(idx[m], conf[m].Sources[idx[m]]))
                                  ELSE lookups[m]]
         /\ ret' = [ret EXCEPT ![m] = IF it.returned
                                      THEN [done |-> TRUE, msgs |-> it.msgs, err |-> it.err]
                                      ELSE ret[m]]
         /\ pc' = [pc EXCEPT ![m] = IF it.returned THEN "returned" ELSE "checkNewer"]
         /\ idx' = [idx EXCEPT ![m] = IF it.returned THEN idx[m] ELSE idx[m] + 1]
    /\ UNCHANGED <<manifests, spawned, wg, proc, conf, printed>>
    /\ UNCHANGED pureVars

\* checkNewer: the range is exhausted: return msgs, nil.
CheckNewerEnd(m) ==
    /\ proc = "running"
    /\ pc[m] = "checkNewer"
    /\ idx[m] > Len(conf[m].Sources)
    /\ ret' = [ret EXCEPT ![m] = [done |-> TRUE, msgs |-> msgs[m], err |-> ""]]
    /\ pc' = [pc EXCEPT ![m] = "returned"]
    /\ UNCHANGED <<manifests, spawned, wg, proc, conf, idx, msgs, checked, lookups, printed>>
    /\ UNCHANGED pureVars

\* handleManifest: checkNewer returned an error: panic(err).
HandlePanic(m) ==
    /\ proc = "running"
    /\ pc[m] = "returned"
    /\ ret[m].err # ""
    /\ pc' = [pc EXCEPT ![m] = "panicked"]
    /\ proc' = "panicked"
    /\ UNCHANGED <<manifests, spawned, wg, conf, idx, msgs, ret, checked, lookups, printed>>
    /\ UNCHANGED pureVars

\* handleManifest: fmt.Println(strings.Join(msgs, "\n")).
HandlePrint(m) ==
    /\ proc = "running"
    /\ pc[m] = "returned"
    /\ ret[m].err = ""
    /\ printed' = [printed EXCEPT ![m] = [done |-> TRUE, msgs |-> ret[m].msgs]]
    /\ pc' = [pc EXCEPT ![m] = "wg.Done"]
    /\ UNCHANGED <<manifests, spawned, wg, proc, conf, idx, msgs, ret, checked, lookups>>
    /\ UNCHANGED pureVars

\* The goroutine: wg.Done() after handleManifest returned.
WgDone(m) ==
    /\ proc = "running"
    /\ pc[m] = "wg.Done"
    /\ wg' = wg - 1
    /\ pc' = [pc EXCEPT ![m] = "done"]
    /\ UNCHANGED <<manifests, spawned, proc, conf, idx, msgs, ret, checked, lookups, printed>>
    /\ UNCHANGED pureVars

\* main: wg.Wait() returns once the counter is zero, and main returns.
Wait ==
    /\ proc = "running"
    /\ spawned = Len(manifests)
    /\ wg = 0
    /\ proc' = "exited"
    /\ UNCHANGED <<manifests, spawned, wg, pc, conf, idx, msgs, ret, checked, lookups, printed>>
    /\ UNCHANGED pureVars

NotParsed == [done |-> FALSE, out |-> <<>>, err |-> FALSE]
NotCompared == [done |-> FALSE, err |-> FALSE, val |-> 0]

\* The state of main before any manifest was found.
MainIdle ==
    /\ manifests = <<>>
    /\ spawned = 0
    /\ wg = 0
    /\ proc = "running"
    /\ pc = <<>>
    /\ conf = <<>>
    /\ idx = <<>>
    /\ msgs = <<>>
    /\ ret = <<>>
    /\ checked = <<>>
    /\ lookups = <<>>
    /\ printed = <<>>

SemverIdle == tag = <<>> /\ parsed = NotParsed
CompareIdle == x = <<>> /\ y = <<>> /\ rxy = NotCompared /\ ryx = NotCompared
NotChecked == [done |-> FALSE, m |-> NoMsg, err |-> "", calls |-> <<>>]
EntryIdle ==
    /\ entry = [Repo |-> <<>>, Tag |-> <<>>, URL |-> <<>>]
    /\ resp = NoResponse
    /\ result = NotChecked

(***************************************************************************)
(* SpecParse: mkSemver applied to a tag.                                   *)
(***************************************************************************)
InitParse ==
    /\ tag \in Tags
    /\ parsed = NotParsed
    /\ CompareIdle
    /\ EntryIdle
    /\ MainIdle

ParseTag ==
    /\ ~parsed.done
    /\ parsed' = [done |-> TRUE, out |-> mkSemver(tag).out, err |-> mkSemver(tag).err]
    /\ UNCHANGED <<tag, compareVars, entryVars, mainVars>>

NextParse == ParseTag

SpecParse == InitParse /\ [][NextParse]_vars

(***************************************************************************)
(* SpecCompare: compareSemver applied to a pair of tags, in both argument  *)
(* orders.                                                                 *)
(***************************************************************************)
InitCompare ==
    /\ x \in CmpTags
    /\ y \in CmpTags
    /\ rxy = NotCompared
    /\ ryx = NotCompared
    /\ SemverIdle
    /\ EntryIdle
    /\ MainIdle

CompareXY ==
    /\ ~rxy.done
    /\ rxy' = [done |-> TRUE, err |-> compareSemver(x, y).err,
               val |-> compareSemver(x, y).val]
    /\ UNCHANGED <<x, y, ryx, semverVars, entryVars, mainVars>>

CompareYX ==
    /\ ~ryx.done
    /\ ryx' = [done |-> TRUE, err |-> compareSemver(y, x).err,
               val |-> compareSemver(y, x).val]
    /\ UNCHANGED <<x, y, rxy, semverVars, entryVars, mainVars>>

NextCompare == CompareXY \/ CompareYX

SpecCompare == InitCompare /\ [][NextCompare]_vars

(***************************************************************************)
(* SpecEntry: checkEntry applied to an entry and an answer of the release  *)
(* API.                                                                    *)
(***************************************************************************)
InitEntry ==
    /\ entry \in Entries
    /\ resp \in Responses
    /\ result = NotChecked
    /\ SemverIdle
    /\ CompareIdle
    /\ MainIdle

CheckEntry ==
    /\ ~result.done
    /\ result' = [done |-> TRUE, m |-> checkEntry(entry, resp).m,
                  err |-> checkEntry(entry, resp).err,
                  calls |-> checkEntry(entry, resp).calls]
    /\ UNCHANGED <<entry, resp, semverVars, compareVars, mainVars>>

NextEntry == CheckEntry

SpecEntry == InitEntry /\ [][NextEntry]_vars

(***************************************************************************)
(* main: the state after flag.Parse, searchForManifests and wg.Add.        *)
(***************************************************************************)
InitMain(files) ==
    /\ manifests = files
    /\ spawned = 0
    /\ wg = Len(files)
    /\ proc = "running"
    /\ pc = [m \in 1..Len(files) |-> "go"]
    /\ conf = [m \in 1..Len(files) |-> [loaded |-> FALSE, Sources |-> <<>>]]
    /\ idx = [m \in 1..Len(files) |-> 1]
    /\ msgs = [m \in 1..Len(files) |-> <<>>]
    /\ ret = [m \in 1..Len(files) |-> NotReturned]
    /\ checked = [m \in 1..Len(files) |-> <<>>]
    /\ lookups = [m \in 1..Len(files) |-> <<>>]
    /\ printed = [m \in 1..Len(files) |-> [done |-> FALSE, msgs |-> <<>>]]
    /\ SemverIdle
    /\ CompareIdle
    /\ EntryIdle

Next ==
    \/ Spawn
    \/ \E m \in Tasks : ParseConfigOk(m)
    \/ \E m \in Tasks : ParseConfigPanic(m)
    \/ \E m \in Tasks : CheckNewerStep(m)
    \/ \E m \in Tasks : CheckNewerEnd(m)
    \/ \E m \in Tasks : HandlePanic(m)
    \/ \E m \in Tasks : HandlePrint(m)
    \/ \E m \in Tasks : WgDone(m)
    \/ Wait

\* main over a tree of up to MaxManifests manifest files.
Init == \E files \in SeqsUpTo(TreeFiles, MaxManifests) : InitMain(files)

Spec == Init /\ [][Next]_vars

\* main over a tree that holds one manifest file, any file of Files.
InitReconcile == \E f \in Files : InitMain(<<f>>)

SpecReconcile == InitReconcile /\ [][Next]_vars

(***************************************************************************)
(* Properties of compareSemver (SpecCompare).                              *)
(***************************************************************************)
\* The component of version vector v at position i, zero past its end.
Padded(v, i) == IF i <= Len(v) THEN v[i] ELSE 0

MaxOf(a, b) == IF a >= b THEN a ELSE b

\* The sign of vector p relative to vector q, most-significant first, the
\* shorter one zero-padded on the right.
SignOf(p, q) ==
    LET n == MaxOf(Len(p), Len(q))
        differ == {i \in 1..n : Padded(p, i) # Padded(q, i)}
    IN  IF differ = {} THEN 0
        ELSE LET first == CHOOSE i \in differ : \A j \in differ : i <= j
             IN  IF Padded(p, first) > Padded(q, first) THEN 1 ELSE -1

\* A tag that parses, without error, to a version vector of at least one
\* component.
Parseable(t) == ~mkSemver(t).err /\ mkSemver(t).out # <<>>

\* C1: for all tags x and y that compareSemver parses without error,
\* compareSemver(x, y) = -compareSemver(y, x), also when the two version
\* vectors differ in length, and compareSemver(x, x) = 0.
C1_Antisymmetric ==
    /\ (rxy.done /\ ryx.done /\ Parseable(x) /\ Parseable(y)) => rxy.val = -ryx.val
    /\ (rxy.done /\ Parseable(x) /\ x = y) => rxy.val = 0

\* C2: for all parseable tags a and b, compareSemver(a, b) is the sign of a's
\* version vector relative to b's after the shorter is zero-padded on the
\* right: 1 when a is greater, -1 when a is smaller, 0 when equal.
C2_SignOfPaddedComparison ==
    (rxy.done /\ Parseable(x) /\ Parseable(y)) =>
        (~rxy.err /\ rxy.val = SignOf(mkSemver(x).out, mkSemver(y).out))

(***************************************************************************)
(* Properties of mkSemver (SpecParse).                                     *)
(***************************************************************************)
\* C4: mkSemver never succeeds with an empty version vector; a tag without
\* any digit, and the tag "1.-2", make it return an error.
C4_NoEmptyVectorOnSuccess ==
    parsed.done =>
        /\ ~(~parsed.err /\ parsed.out = <<>>)
        /\ ((\A i \in 1..Len(tag) : ~IsDigit(tag[i])) \/ tag = Tag_1_neg2)
              => parsed.err

\* The positions of the digits of tag t.
DigitPositions(t) == {i \in 1..Len(t) : IsDigit(t[i])}
FirstDigit(t) == CHOOSE i \in DigitPositions(t) : \A j \in DigitPositions(t) : i <= j
LastDigit(t) == CHOOSE i \in DigitPositions(t) : \A j \in DigitPositions(t) : i >= j

\* The part of t from its first digit to its last digit.
Body(t) == SubSeq(t, FirstDigit(t), LastDigit(t))

\* b is one to five digit runs separated by single dots.
IsDottedRuns(b) ==
    /\ \A i \in 1..Len(b) : IsDigit(b[i]) \/ b[i] = "."
    /\ \A i \in 1..(Len(b) - 1) : ~(b[i] = "." /\ b[i + 1] = ".")
    /\ Cardinality({i \in 1..Len(b) : b[i] = "."}) <= 4

\* t is an optional non-digit prefix, one to five dot-separated digit runs and
\* optional trailing content without digits.
HasTagShape(t) == DigitPositions(t) # {} /\ IsDottedRuns(Body(t))

\* What follows the last digit run of t.
Trailing(t) == SubSeq(t, LastDigit(t) + 1, Len(t))

\* The digit runs of a dotted body, in order.
RECURSIVE SplitAtDots(_)
SplitAtDots(b) ==
    IF \A i \in 1..Len(b) : b[i] # "." THEN <<b>>
    ELSE LET d == CHOOSE i \in 1..Len(b) :
                      b[i] = "." /\ \A j \in 1..(i - 1) : b[j] # "."
         IN  <<SubSeq(b, 1, d - 1)>> \o SplitAtDots(SubSeq(b, d + 1, Len(b)))

\* The number a digit run denotes, or -1 when it exceeds 2^31 - 1.
RECURSIVE RunValueFrom(_, _, _)
RunValueFrom(r, i, acc) ==
    IF i > Len(r) THEN acc
    ELSE IF acc > MaxInt32 \div 10
            \/ (acc = MaxInt32 \div 10 /\ DigitVal(r[i]) > MaxInt32 % 10) THEN -1
    ELSE RunValueFrom(r, i + 1, 10 * acc + DigitVal(r[i]))

RunValue(r) == RunValueFrom(r, 1, 0)

RunValues(t) ==
    LET runs == SplitAtDots(Body(t))
    IN  [k \in 1..Len(runs) |-> RunValue(runs[k])]

LatestNamed == Len(result.calls) >= 2 /\ resp.kind = "object" /\ resp.name = "string"

\* C3: an entry with Repo set and no URL, whose lookup succeeds with a
\* non-null name, is classified Outdated, carrying the pinned and the latest
\* tag, whenever the pinned tag is an older version than the latest name.
C3_OlderPinIsOutdated ==
    (/\ result.done
     /\ Len(entry.URL) = 0
     /\ Len(entry.Repo) # 0
     /\ LatestNamed
     /\ Parseable(entry.Tag)
     /\ Parseable(resp.value)
     /\ SignOf(mkSemver(entry.Tag).out, mkSemver(resp.value).out) = -1)
    => /\ result.err = ""
       /\ result.m.class = "Outdated"
       /\ result.m.have = entry.Tag
       /\ result.m.latest = resp.value

\* C8: for every entry with URL set, whatever its Repo and Tag, checkEntry
\* returns the RawURL message without error and without parsing the repo
\* reference, asking the release API or comparing versions.
C8_RawUrlChecksNothing ==
    (result.done /\ Len(entry.URL) # 0) =>
        /\ result.err = ""
        /\ result.m.class = "RawURL"
        /\ result.m.url = entry.URL
        /\ result.calls = <<>>

\* An entry with URL, Repo and Tag all set was checked.
C8_Witness ==
    /\ result.done
    /\ Len(entry.URL) # 0
    /\ Len(entry.Repo) # 0
    /\ Len(entry.Tag) # 0
    /\ result.m.class = "RawURL"

\* C9: for every entry with a parseable Repo (and no URL) whose lookup answers
\* a JSON object with the name absent or null, checkEntry returns the
\* Unverifiable message without error and without comparing versions,
\* whatever the pinned Tag.
C9_NoNameIsUnverifiable ==
    (/\ result.done
     /\ Len(entry.URL) = 0
     /\ ~parseRepo(entry.Repo).err
     /\ resp.kind = "object"
     /\ resp.name \in {"absent", "null"})
    => /\ result.err = ""
       /\ result.m.class = "Unverifiable"
       /\ result.m.repo = entry.Repo
       /\ result.calls = <<"parseRepo", "http.Get">>

\* A null name was answered for an entry whose Tag the comparator rejects.
C9_Witness ==
    /\ result.done
    /\ entry.Tag = Tag_overflow
    /\ resp.kind = "object"
    /\ resp.name = "null"
    /\ result.m.class = "Unverifiable"

(***************************************************************************)
(* Properties of checkNewer and parseConfig (SpecReconcile).               *)
(***************************************************************************)
\* C5: checkNewer checks entries strictly in manifest order; at the first
\* entry whose check returns an error it returns that error with exactly the
\* results of the entries before it, in order, and no later entry is checked
\* or looked up; without a failing entry it returns one result per entry, in
\* entry order.
C5_StopsAtFirstError ==
    \A m \in Tasks :
        /\ Len(checked[m]) <= Len(conf[m].Sources)
        /\ \A k \in 1..Len(checked[m]) :
              /\ checked[m][k].i = k
              /\ checked[m][k].e = conf[m].Sources[k]
              /\ k < Len(checked[m]) => checked[m][k].r.err = ""
        /\ \A k \in 1..Len(lookups[m]) :
              /\ lookups[m][k].i <= Len(checked[m])
              /\ k > 1 => lookups[m][k - 1].i < lookups[m][k].i
        /\ ret[m].done =>
              /\ Len(ret[m].msgs) = Cardinality({k \in 1..Len(checked[m]) : checked[m][k].r.err = ""})
              /\ \A k \in 1..Len(ret[m].msgs) : ret[m].msgs[k] = checked[m][k].r.m
              /\ IF ret[m].err = ""
                 THEN Len(ret[m].msgs) = Len(conf[m].Sources)
                 ELSE /\ Len(checked[m]) >= 1
                      /\ checked[m][Len(checked[m])].r.err = ret[m].err
                      /\ Len(ret[m].msgs) = Len(checked[m]) - 1

\* checkNewer returned an error at the second of three entries, with the
\* result of the first.
C5_Witness ==
    \E m \in Tasks :
        /\ ret[m].done
        /\ ret[m].err # ""
        /\ Len(ret[m].msgs) = 1
        /\ Len(checked[m]) = 2
        /\ Len(conf[m].Sources) = 3

\* C7: every entry of a Config that parseConfig accepts has exactly one of
\* Repo and URL set, and a non-empty Tag whenever Repo is set.
C7_ExactlyOneOfRepoAndUrl ==
    \A m \in Tasks :
        conf[m].loaded =>
            \A k \in 1..Len(conf[m].Sources) :
                LET e == conf[m].Sources[k]
                IN  /\ (Len(e.Repo) # 0) # (Len(e.URL) # 0)
                    /\ Len(e.Repo) # 0 => Len(e.Tag) # 0

(***************************************************************************)
(* Properties of main (Spec).                                              *)
(***************************************************************************)
\* C6: the process does not exit until every manifest task has run to
\* completion, also when some manifest fails to parse or validate or some
\* entry check returns an error (a task that failed counts as over).
C6_ExitsAfterEveryTask ==
    proc # "running" => \A m \in Tasks : pc[m] \in {"done", "panicked"}

====
